---- MODULE Spec2Model ----
(***************************************************************************)
(* Model of misc/options.c: the option table, parse_options with its       *)
(* in-place removal, the WINEOPTIONS inheritance string and its replay,    *)
(* the --debugmsg grammar, and the argc/argv accessors.                    *)
(*                                                                         *)
(* A C string is a sequence of one-character strings; NULL is a value that *)
(* is no C string.  A char *[] array is a sequence whose entries are C     *)
(* strings or NULL; C index k is entry k + 1.                              *)
(***************************************************************************)
EXTENDS Integers, Sequences, FiniteSets, TLC

NULL == <<"NULL">>

\* ------------------------------------------------------------ libc

\* strchr: the 1-based position of the first c in s, 0 when there is none
strchr(s, c) ==
    IF \E k \in 1..Len(s) : s[k] = c
    THEN CHOOSE k \in 1..Len(s) : s[k] = c /\ \A j \in 1..(k-1) : s[j] # c
    ELSE 0

\* the suffix of s from position k on (the pointer s + k - 1)
From(s, k) == SubSeq(s, k, Len(s))

\* the position of the first character of s that is in delims (0: none)
FirstIn(s, delims) ==
    IF \E k \in 1..Len(s) : s[k] \in delims
    THEN CHOOSE k \in 1..Len(s) : s[k] \in delims /\ \A j \in 1..(k-1) : s[j] \notin delims
    ELSE 0

\* the position of the first character of s that is not in delims (0: none)
FirstNotIn(s, delims) ==
    IF \E k \in 1..Len(s) : s[k] \notin delims
    THEN CHOOSE k \in 1..Len(s) : s[k] \notin delims /\ \A j \in 1..(k-1) : s[j] \in delims
    ELSE 0

\* strtok on the text s still to be scanned: leading delimiters are skipped,
\* the token ends at the next delimiter, which is overwritten; tok = NULL
\* when only delimiters are left
TokenAt(t, e) ==
    IF e = 0 THEN [tok |-> t, rest |-> <<>>]
    ELSE [tok |-> SubSeq(t, 1, e - 1), rest |-> From(t, e + 1)]

TokenFrom(t, delims) == TokenAt(t, FirstIn(t, delims))

TokenStart(s, b, delims) ==
    IF b = 0 THEN [tok |-> NULL, rest |-> <<>>] ELSE TokenFrom(From(s, b), delims)

strtok(s, delims) == TokenStart(s, FirstNotIn(s, delims), delims)

LowerCase == <<"a","b","c","d","e","f","g","h","i","j","k","l","m",
               "n","o","p","q","r","s","t","u","v","w","x","y","z">>
UpperCase == <<"A","B","C","D","E","F","G","H","I","J","K","L","M",
               "N","O","P","Q","R","S","T","U","V","W","X","Y","Z">>

toupper(c) ==
    IF \E k \in 1..26 : LowerCase[k] = c
    THEN UpperCase[CHOOSE k \in 1..26 : LowerCase[k] = c]
    ELSE c

tolower(c) ==
    IF \E k \in 1..26 : UpperCase[k] = c
    THEN LowerCase[CHOOSE k \in 1..26 : UpperCase[k] = c]
    ELSE c

strupr(s) == [k \in 1..Len(s) |-> toupper(s[k])]

\* !strncasecmp( s, key, strlen(key) ), for a key without a NUL
strncasecmp_eq(s, key) ==
    /\ Len(s) >= Len(key)
    /\ \A k \in 1..Len(key) : tolower(s[k]) = tolower(key[k])

\* ------------------------------------------------------------ option_table

option_table ==
    << [longname |-> <<"d","e","b","u","g","m","s","g">>, shortname |-> "",
        has_arg |-> TRUE,  inherit |-> TRUE,  func |-> "do_debugmsg"],
       [longname |-> <<"d","l","l">>, shortname |-> "",
        has_arg |-> TRUE,  inherit |-> TRUE,  func |-> "MODULE_AddLoadOrderOption"],
       [longname |-> <<"d","o","s","v","e","r">>, shortname |-> "",
        has_arg |-> TRUE,  inherit |-> TRUE,  func |-> "VERSION_ParseDosVersion"],
       [longname |-> <<"h","e","l","p">>, shortname |-> "h",
        has_arg |-> FALSE, inherit |-> FALSE, func |-> "do_help"],
       [longname |-> <<"m","a","n","a","g","e","d">>, shortname |-> "",
        has_arg |-> FALSE, inherit |-> FALSE, func |-> "do_managed"],
       [longname |-> <<"v","e","r","s","i","o","n">>, shortname |-> "v",
        has_arg |-> FALSE, inherit |-> FALSE, func |-> "do_version"],
       [longname |-> <<"w","i","n","v","e","r">>, shortname |-> "",
        has_arg |-> TRUE,  inherit |-> TRUE,  func |-> "VERSION_ParseWinVersion"] >>

\* the index of the terminator entry, whose longname is NULL
TableEnd == Len(option_table) + 1

\* for (opt = option_table; opt->longname; opt++) if (opt->shortname == *p) break;
RECURSIVE FindShort(_, _)
FindShort(c, k) ==
    IF k = TableEnd THEN k
    ELSE IF option_table[k].shortname = c THEN k
    ELSE FindShort(c, k + 1)

\* LongTest without its test of has_arg: a flag would take a value too
LongTest_any_descr(opt, p, equal) ==
    IF p = opt.longname THEN [hit |-> TRUE, equalarg |-> NULL]
    ELSE IF /\ equal # 0
            /\ Len(opt.longname) = equal - 1
            /\ SubSeq(p, 1, equal - 1) = opt.longname
         THEN [hit |-> TRUE, equalarg |-> From(p, equal + 1)]
         ELSE [hit |-> FALSE, equalarg |-> NULL]

\* the body of the long-name loop for one descriptor: [hit, equalarg]
LongTest(opt, p, equal) ==
    IF p = opt.longname THEN [hit |-> TRUE, equalarg |-> NULL]
    ELSE IF /\ opt.has_arg
            /\ equal # 0
            /\ Len(opt.longname) = equal - 1
            /\ SubSeq(p, 1, equal - 1) = opt.longname
         THEN [hit |-> TRUE, equalarg |-> From(p, equal + 1)]
         ELSE [hit |-> FALSE, equalarg |-> NULL]

\* for (opt = option_table; opt->longname; opt++) { plain; --option=value }
RECURSIVE FindLong(_, _, _)
FindLong(p, equal, k) ==
    IF k = TableEnd THEN [opt |-> k, equalarg |-> NULL]
    ELSE IF LongTest(option_table[k], p, equal).hit
         THEN [opt |-> k, equalarg |-> LongTest(option_table[k], p, equal).equalarg]
         ELSE FindLong(p, equal, k + 1)

\* What one iteration of parse_options decides for the token tok = argv[i]:
\*   kind "continue": not an option, or no descriptor matches
\*   kind "break":    the "--" option
\*   kind "match":    descriptor opt, with the inline value equalarg or NULL
\* the outcome of a table loop that ended at entry k
Found(k, equalarg) ==
    [kind |-> IF k = TableEnd THEN "continue" ELSE "match", opt |-> k, equalarg |-> equalarg]

FoundLong(f) == Found(f.opt, f.equalarg)

\* the long-name branch, p past the first '-': equal = strchr(p, '=') is
\* taken before the "if (*p == '-') p++"
ScanLong(p, equal) ==
    IF p # <<>> /\ p[1] = "-"
    THEN FoundLong(FindLong(Tail(p), IF equal # 0 THEN equal - 1 ELSE 0, 1))
    ELSE FoundLong(FindLong(p, equal, 1))

\* p = argv[i] + 1, after "if (*p++ != '-') continue;"
ScanName(p) ==
    IF p # <<>> /\ Len(p) = 1
    THEN IF p[1] = "-" THEN [kind |-> "break", opt |-> TableEnd, equalarg |-> NULL]
         ELSE Found(FindShort(p[1], 1), NULL)
    ELSE ScanLong(p, strchr(p, "="))

ScanToken(tok) ==
    IF tok = <<>> \/ tok[1] # "-" THEN [kind |-> "continue", opt |-> TableEnd, equalarg |-> NULL]
    ELSE ScanName(Tail(tok))

\* MatchArgs with the test of equalarg left out
MatchArgs_no_inline(argv, i, m) ==
    IF option_table[m.opt].has_arg /\ argv[i + 2] # NULL
    THEN [value |-> argv[i + 2], count |-> 2]
    ELSE [value |-> <<>>, count |-> 1]

\* the value handed to opt->func and the count handed to remove_options,
\* for a match at C index i of the array argv
MatchArgs(argv, i, m) ==
    IF m.equalarg # NULL THEN [value |-> m.equalarg, count |-> 1]
    ELSE IF option_table[m.opt].has_arg /\ argv[i + 2] # NULL
         THEN [value |-> argv[i + 2], count |-> 2]
         ELSE [value |-> <<>>, count |-> 1]

\* ------------------------------------------------------------ remove_options

\* the value of pos when the loop "while ((argv[pos] = argv[pos+count])) pos++"
\* stops: the first index from pos on at which the entry count places ahead
\* is the NULL
ShiftStop(argv, pos, count) ==
    CHOOSE e \in pos..(Len(argv) - count - 1) :
        /\ argv[e + count + 1] = NULL
        /\ \A j \in pos..(e - 1) : argv[j + count + 1] # NULL

\* the array after the loop has copied down the entries up to index stop
ShiftedTo(argv, pos, count, stop) ==
    [k \in 1..Len(argv) |->
        IF pos + 1 <= k /\ k <= stop + 1 THEN argv[k + count] ELSE argv[k]]

\* ShiftArgv moving the entries down by one whatever the count
ShiftArgv_by_one(argv, pos, count) == ShiftedTo(argv, pos, 1, ShiftStop(argv, pos, 1))

\* while ((argv[pos] = argv[pos+count])) pos++;
\* (every entry is read before the loop writes it, so the copies are those
\* of the array as it was; the entries past the new NULL keep their values)
ShiftArgv(argv, pos, count) == ShiftedTo(argv, pos, count, ShiftStop(argv, pos, count))

\* strcat of argv[pos..pos+count-1], one space between two of them
RECURSIVE JoinArgs(_, _, _)
JoinArgs(argv, pos, count) ==
    IF count = 0 THEN <<>>
    ELSE argv[pos + 1] \o (IF count > 1 THEN <<" ">> ELSE <<>>)
                       \o JoinArgs(argv, pos + 1, count - 1)

\* InheritStr that starts the string anew at every call
InheritStr_overwrites(str, argv, pos, count, inherit) ==
    IF ~inherit THEN str ELSE JoinArgs(argv, pos, count)

\* InheritStr without the strcat( inherit_str, " " ) before the new tokens
InheritStr_no_separator(str, argv, pos, count, inherit) ==
    IF ~inherit THEN str
    ELSE IF str # NULL THEN str \o JoinArgs(argv, pos, count)
         ELSE JoinArgs(argv, pos, count)

\* the new inherit_str of remove_options( argv, pos, count, inherit )
InheritStr(str, argv, pos, count, inherit) ==
    IF ~inherit THEN str
    ELSE IF str # NULL THEN str \o <<" ">> \o JoinArgs(argv, pos, count)
         ELSE JoinArgs(argv, pos, count)

\* ------------------------------------------------------------ do_debugmsg

debug_class_names ==
    << <<"f","i","x","m","e">>, <<"e","r","r">>, <<"w","a","r","n">>, <<"t","r","a","c","e">> >>

DBCL_COUNT == Len(debug_class_names)

\* unsigned char set = ~0
AllBits == 255

RECURSIVE Pow2(_)
Pow2(n) == IF n = 0 THEN 1 ELSE 2 * Pow2(n - 1)

\* for (i = 0; i < __DBCL_COUNT; i++) { len != (p - opt): continue; !memcmp: break }
\* the value of i after the loop (0-based), __DBCL_COUNT when no name is found
RECURSIVE ClassIndex(_, _)
ClassIndex(name, i) ==
    IF i = DBCL_COUNT THEN i
    ELSE IF Len(debug_class_names[i + 1]) = Len(name) /\ debug_class_names[i + 1] = name THEN i
    ELSE ClassIndex(name, i + 1)

\* char *p = strchr( opt, '+' ); if (!p) p = strchr( opt, '-' );
DirectiveSign(opt) ==
    IF strchr(opt, "+") # 0 THEN strchr(opt, "+") ELSE strchr(opt, "-")

\* SplitModules without _strupr
RECURSIVE SplitModules_as_written(_)
SplitModules_as_written(s) ==
    IF strchr(s, ":") = 0 THEN << s >>
    ELSE << SubSeq(s, 1, strchr(s, ":") - 1) >> \o SplitModules_as_written(From(s, strchr(s, ":") + 1))

\* the two loops over strchr(s, ':') and the last component: the modules
\* of the text s, each a _strupr'ed copy
RECURSIVE SplitModules(_)
SplitModules(s) ==
    IF strchr(s, ":") = 0 THEN << strupr(s) >>
    ELSE << strupr(SubSeq(s, 1, strchr(s, ":") - 1)) >> \o SplitModules(From(s, strchr(s, ":") + 1))

\* output = (*p == '+') ? ((*(p+1) == 'r') ? &relay_include : &snoop_include)
\*                      : ((*(p+1) == 'r') ? &relay_exclude : &snoop_exclude)
ModuleOutput(sign, first) ==
    IF sign = "+"
    THEN (IF first = "r" THEN "debug_relay_includelist" ELSE "debug_snoop_includelist")
    ELSE (IF first = "r" THEN "debug_relay_excludelist" ELSE "debug_snoop_excludelist")

\* if (!strcmp( p, "all" )) p = "";
Selector(p) == IF p = <<"a","l","l">> THEN <<>> ELSE p

wine_dbg_add_option(d, name, set, clear) ==
    [d EXCEPT !.calls = Append(@, [name |-> name, set |-> set, clear |-> clear])]

\* if (strchr(p,',')) l=strchr(p,',')-p; else l=strlen(p);
\* (strtok has ended opt at the comma, so strchr finds none)
ModuleLen(s) == IF strchr(s, ",") # 0 THEN strchr(s, ",") - 1 ELSE Len(s)

\* ModuleDirective without "set = ~0; clear = 0;": the call keeps the sign
ModuleDirective_keeps_sign(d, opt, p, l) ==
    [ok |-> TRUE,
     d |-> wine_dbg_add_option(
               [d EXCEPT ![ModuleOutput(opt[p], opt[p + 1])] =
                             SplitModules(SubSeq(opt, p + 7, p + l - 1)) \o << NULL >>],
               Selector(SubSeq(opt, p + 1, p + 5)),
               IF opt[p] = "+" THEN AllBits ELSE 0,
               IF opt[p] = "+" THEN 0 ELSE AllBits)]

\* The relay=/snoop= block for the sign at p, with l as computed: the list
\* is built from p + 7 up to p + l and ends with NULL; then *(p + 6) = '\0'
\* leaves the text before the '=' as the name of the call that follows.
ModuleDirective(d, opt, p, l) ==
    [ok |-> TRUE,
     d |-> wine_dbg_add_option(
               [d EXCEPT ![ModuleOutput(opt[p], opt[p + 1])] =
                             SplitModules(SubSeq(opt, p + 7, p + l - 1)) \o << NULL >>],
               Selector(SubSeq(opt, p + 1, p + 5)), AllBits, 0)]

\* ClassDirective with the bit of the next class: 1 << (i + 1)
ClassDirective_next_bit(d, opt, p, i) ==
    IF i = DBCL_COUNT THEN [ok |-> FALSE, d |-> d]
    ELSE [ok |-> TRUE,
          d |-> wine_dbg_add_option(d, Selector(From(opt, p + 1)),
                                    IF opt[p] = "+" THEN Pow2(i + 1) ELSE 0,
                                    IF opt[p] = "+" THEN 0 ELSE Pow2(i + 1))]

\* a directive whose sign at p follows the class name found at index i
ClassDirective(d, opt, p, i) ==
    IF i = DBCL_COUNT THEN [ok |-> FALSE, d |-> d]
    ELSE [ok |-> TRUE,
          d |-> wine_dbg_add_option(d, Selector(From(opt, p + 1)),
                                    IF opt[p] = "+" THEN Pow2(i) ELSE 0,
                                    IF opt[p] = "+" THEN 0 ELSE Pow2(i))]

\* the loop body once p is found; ok = FALSE is the goto error
DirectiveAt(d, opt, p) ==
    IF p = 0 \/ p = Len(opt) THEN [ok |-> FALSE, d |-> d]
    ELSE IF p > 1 THEN ClassDirective(d, opt, p, ClassIndex(SubSeq(opt, 1, p - 1), 0))
    ELSE IF \/ strncasecmp_eq(From(opt, p + 1), <<"r","e","l","a","y","=">>)
            \/ strncasecmp_eq(From(opt, p + 1), <<"s","n","o","o","p","=">>)
    THEN ModuleDirective(d, opt, p, ModuleLen(From(opt, p)))
    ELSE [ok |-> TRUE,
          d |-> wine_dbg_add_option(d, Selector(From(opt, p + 1)),
                                    IF opt[p] = "+" THEN AllBits ELSE 0,
                                    IF opt[p] = "+" THEN 0 ELSE AllBits)]

\* The body of the do-while loop for one strtok token opt, on the diagnostic
\* state d (the calls made to wine_dbg_add_option and the four module lists)
DebugDirective(d, opt) == DirectiveAt(d, opt, DirectiveSign(opt))

\* do { ... opt = strtok( NULL, "," ); } while(opt);
RECURSIVE DebugLoop(_, _, _)
DebugAgain(r, t) ==
    IF t.tok = NULL THEN r ELSE DebugLoop(r.d, t.tok, t.rest)

DebugStep(r, rest) ==
    IF ~r.ok THEN r ELSE DebugAgain(r, strtok(rest, {","}))

DebugLoop(d, opt, rest) == DebugStep(DebugDirective(d, opt), rest)

\* DebugFirst without "goto error" when the first strtok finds no token
DebugFirst_accepts_none(d, t) ==
    IF t.tok = NULL THEN [ok |-> TRUE, d |-> d] ELSE DebugLoop(d, t.tok, t.rest)

DebugFirst(d, t) ==
    IF t.tok = NULL THEN [ok |-> FALSE, d |-> d] ELSE DebugLoop(d, t.tok, t.rest)

\* do_debugmsg( arg ) on the diagnostic state d; ok = FALSE: the error
\* label is reached (the syntax message, ExitProcess(1))
do_debugmsg(d, arg) == DebugFirst(d, strtok(arg, {","}))

\* ------------------------------------------------------------ handlers

\* The part of the process state a handler can change: Options.managed, the
\* diagnostic state, the messages printed so far, and whether ExitProcess
\* was called, with its code.
MESSAGE(st, id, arg) == [st EXCEPT !.msgs = Append(@, [id |-> id, arg |-> arg])]

ExitProcess(st, code) == [st EXCEPT !.exited = TRUE, !.exit = code]

OPTIONS_Usage(st) == ExitProcess(MESSAGE(st, "Usage", <<>>), 0)

do_help(st, arg) == OPTIONS_Usage(st)

do_version(st, arg) == ExitProcess(MESSAGE(st, "WINE_RELEASE_INFO", <<>>), 0)

do_managed(st, arg) == [st EXCEPT !.managed = TRUE]

DebugResult(st, r) ==
    IF r.ok THEN [st EXCEPT !.debug = r.d]
    ELSE ExitProcess(MESSAGE([st EXCEPT !.debug = r.d], "wine: Syntax: --debugmsg", <<>>), 1)

do_debugmsg_handler(st, arg) == DebugResult(st, do_debugmsg(st.debug, arg))

\* MODULE_AddLoadOrderOption, VERSION_ParseDosVersion, VERSION_ParseWinVersion:
\* defined outside this file; they take the value and return
external_handler(st, arg) == st

\* opt->func( arg )
CallFunc(func, st, arg) ==
    CASE func = "do_debugmsg" -> do_debugmsg_handler(st, arg)
      [] func = "do_help"     -> do_help(st, arg)
      [] func = "do_managed"  -> do_managed(st, arg)
      [] func = "do_version"  -> do_version(st, arg)
      [] OTHER                -> external_handler(st, arg)

\* ------------------------------------------------------------ parse_options

\* AfterFunc without the i-- that follows remove_options
AfterFunc_advances(a, pos, idx, opt, ma, st2, istr, cl) ==
    IF st2.exited
    THEN [argv |-> a, i |-> idx, st |-> st2, inherit_str |-> istr,
          calls |-> Append(cl, [func |-> opt.func, arg |-> ma.value])]
    ELSE [argv |-> ShiftArgv(a, pos, ma.count),
          i |-> idx + 1,
          st |-> st2,
          inherit_str |-> InheritStr(istr, a, pos, ma.count, opt.inherit),
          calls |-> Append(cl, [func |-> opt.func, arg |-> ma.value])]

\* after opt->func( value ) has left the state st2: remove_options( argv, i,
\* count, opt->inherit ) and i--, unless the handler ended the process
AfterFunc(a, pos, idx, opt, ma, st2, istr, cl) ==
    IF st2.exited
    THEN [argv |-> a, i |-> idx, st |-> st2, inherit_str |-> istr,
          calls |-> Append(cl, [func |-> opt.func, arg |-> ma.value])]
    ELSE [argv |-> ShiftArgv(a, pos, ma.count),
          i |-> idx,
          st |-> st2,
          inherit_str |-> InheritStr(istr, a, pos, ma.count, opt.inherit),
          calls |-> Append(cl, [func |-> opt.func, arg |-> ma.value])]

Matched(a, pos, idx, opt, ma, st, istr, cl) ==
    AfterFunc(a, pos, idx, opt, ma, CallFunc(opt.func, st, ma.value), istr, cl)

Scanned(a, pos, idx, m, st, istr, cl) ==
    IF m.kind # "match"
    THEN [argv |-> a, i |-> idx + 1, st |-> st, inherit_str |-> istr, calls |-> cl]
    ELSE Matched(a, pos, idx, option_table[m.opt], MatchArgs(a, pos, m), st, istr, cl)

\* One iteration of the for loop of parse_options on the array a, whose
\* element 0 is entry base + 1 of a (base = 1 for argv + 1), at index idx,
\* with a[idx] not NULL and not the "--" option.  cl is the record of the
\* calls made through opt->func so far, istr is inherit_str.
ParseIteration(a, base, idx, st, istr, cl) ==
    Scanned(a, base + idx, idx, ScanToken(a[base + idx + 1]), st, istr, cl)

\* ------------------------------------------------------------ inherit_options

\* sizeof(argv)/sizeof(argv[0]) - 1
ReplayCap == 255

\* the positions of s at which the successive calls of strtok find a token:
\* a character that is no delimiter, at the start or after a delimiter
TokenStarts(s, delims) ==
    { k \in 1..Len(s) : s[k] \notin delims /\ (k = 1 \/ s[k - 1] \in delims) }

\* how many tokens start before each start
TokenIndex(starts) == [k \in starts |-> Cardinality({ j \in starts : j < k })]

\* for (n = 0; n < sizeof(argv)/sizeof(argv[0])-1 && p; n++)
\*     { argv[n] = p; p = strtok( NULL, " \t" ); }
\* argv[n] is the token of the n-th start, for n below the capacity and the
\* number of tokens; count is the n the loop ends with
TokenLoop(s, starts, index, count) ==
    [n \in 1..count |->
        TokenFrom(From(s, CHOOSE k \in starts : index[k] = n - 1), {" ", "\t"}).tok]

ReplayCount(starts) == IF Cardinality(starts) < ReplayCap THEN Cardinality(starts) ELSE ReplayCap

ReplayTokens(s, starts) == TokenLoop(s, starts, TokenIndex(starts), ReplayCount(starts))

\* the local argv of inherit_options, with its NULL at index n
ReplayArgv(buffer) == ReplayTokens(buffer, TokenStarts(buffer, {" ", "\t"})) \o << NULL >>

\* RemainCheck that stops at the "--" without removing it
RECURSIVE RemainCheck_keeps_separator(_, _)
RemainCheck_keeps_separator(a, k) ==
    IF a[k + 1] = NULL THEN [argv |-> a, unknown |-> NULL]
    ELSE IF a[k + 1] = <<"-","-">> THEN [argv |-> a, unknown |-> NULL]
    ELSE IF a[k + 1] # <<>> /\ a[k + 1][1] = "-" THEN [argv |-> a, unknown |-> a[k + 1]]
    ELSE RemainCheck_keeps_separator(a, k + 1)

\* i = 1 ... of the check "if any option remains" of OPTIONS_ParseOptions:
\* [argv, unknown]: unknown is the token reported, or NULL
RECURSIVE RemainCheck(_, _)
RemainCheck(a, k) ==
    IF a[k + 1] = NULL THEN [argv |-> a, unknown |-> NULL]
    ELSE IF a[k + 1] = <<"-","-">> THEN [argv |-> ShiftArgv(a, k, 1), unknown |-> NULL]
    ELSE IF a[k + 1] # <<>> /\ a[k + 1][1] = "-" THEN [argv |-> a, unknown |-> a[k + 1]]
    ELSE RemainCheck(a, k + 1)

\* while (argv[app_argc]) app_argc++;
RECURSIVE CountArgs(_, _)
CountArgs(a, n) == IF a[n + 1] = NULL THEN n ELSE CountArgs(a, n + 1)

\* ------------------------------------------------------------ inputs

MaxArgs == 3
MaxGen == 1
MaxDirectives == 2

argv0 == <<"w","i","n","e">>

tok_dll       == <<"-","-","d","l","l">>
tok_winver_eq == <<"-","-","w","i","n","v","e","r","=","a","=","b">>
tok_debugmsg  == <<"-","-","d","e","b","u","g","m","s","g">>
tok_dosver    == <<"-","d","o","s","v","e","r">>
tok_help      == <<"-","-","h","e","l","p">>
tok_help_eq   == <<"-","-","h","e","l","p","=","x">>
tok_v         == <<"-","v">>
tok_managed   == <<"-","-","m","a","n","a","g","e","d">>
tok_x         == <<"-","x">>
tok_sep       == <<"-","-">>
tok_plusall   == <<"+","a","l","l">>
tok_foo       == <<"f","o","o">>
tok_space     == <<"a"," ","b">>
tok_empty     == <<>>

Tokens ==
    { tok_dll, tok_winver_eq, tok_debugmsg, tok_dosver, tok_help, tok_help_eq, tok_v,
      tok_managed, tok_x, tok_sep, tok_plusall, tok_foo, tok_space, tok_empty }

\* the command lines: argv[0], at most MaxArgs tokens, the NULL
ArgvInputs ==
    { << argv0 >> \o s \o << NULL >> : s \in UNION { [1..n -> Tokens] : n \in 0..MaxArgs } }

env_dll_foo == tok_dll \o <<" ">> \o tok_foo
env_managed == <<" ">> \o tok_managed \o <<"\t">> \o tok_foo
env_sep     == tok_managed \o <<" ">> \o tok_sep \o <<" ">> \o tok_v
env_unknown == tok_x \o <<" ">> \o tok_managed

\* the WINEOPTIONS a first process may find: unset, every token consumed,
\* a word left over, a "--" left over, an unrecognized option left over
EnvInputs == { NULL, env_dll_foo, env_managed, env_sep, env_unknown }

\* ------------------------------------------------------------ state

VARIABLES
    argv_in,      \* the command line the process was started with
    env_in,       \* the WINEOPTIONS the process was started with
    parent,       \* the process that started this one: its argv_in, env_in, calls, app_argc
    gen,          \* 0 for the first process, 1 for its child, ...
    pc,           \* start, replay, live, done, exited
    env,          \* the WINEOPTIONS variable: a string, or NULL when unset
    argv,         \* the argv handed to OPTIONS_ParseOptions
    rargv,        \* the local argv of inherit_options
    i,            \* the i of parse_options
    inherit_str,
    calls,        \* the calls made through opt->func: [func, arg]
    st,           \* [managed, debug, msgs, exited, exit]
    app_argc, app_argv, app_wargv,
    main_args,    \* what __wine_get_main_args last returned: [called, argc, argv]
    wmain_args,   \* what __wine_get_wmain_args last returned: [called, argc, argv]
    nconv,        \* the MultiByteToWideChar conversions into app_wargv so far
    dm            \* do_debugmsg on its own: [pc, arg, d0, opt, rest, prev]

vars == << argv_in, env_in, parent, gen, pc, env, argv, rargv, i, inherit_str, calls, st,
           app_argc, app_argv, app_wargv, main_args, wmain_args, nconv, dm >>

NoDebug ==
    [calls |-> <<>>,
     debug_relay_includelist |-> NULL, debug_relay_excludelist |-> NULL,
     debug_snoop_includelist |-> NULL, debug_snoop_excludelist |-> NULL]

\* the statics of a process that has just started
FreshSt == [managed |-> FALSE, debug |-> NoDebug, msgs |-> <<>>, exited |-> FALSE, exit |-> 0]

DmIdle == [pc |-> "idle", arg |-> <<>>, d0 |-> NoDebug, opt |-> NULL, rest |-> <<>>, prev |-> NULL]

NotCalled == [called |-> FALSE, argc |-> 0, argv |-> NULL]

NoParent == [argv_in |-> NULL, env_in |-> NULL, calls |-> <<>>, app_argc |-> 0]

ProcessStart(a, e) ==
    /\ argv_in = a /\ argv = a
    /\ env_in = e /\ env = e
    /\ pc = "start"
    /\ rargv = << NULL >>
    /\ i = 0
    /\ inherit_str = NULL
    /\ calls = <<>>
    /\ st = FreshSt
    /\ app_argc = 0 /\ app_argv = NULL /\ app_wargv = NULL
    /\ main_args = NotCalled /\ wmain_args = NotCalled /\ nconv = 0

Init ==
    /\ \E a \in ArgvInputs, e \in EnvInputs : ProcessStart(a, e)
    /\ parent = NoParent
    /\ gen = 0
    /\ dm = DmIdle

\* ------------------------------------------------------------ OPTIONS_ParseOptions

\* Start without the call of inherit_options
Start_without_replay ==
    /\ pc = "start"
    /\ i' = 0
    /\ pc' = "live" /\ rargv' = rargv
    /\ UNCHANGED << argv_in, env_in, parent, gen, env, argv, inherit_str, calls, st,
                    app_argc, app_argv, app_wargv, main_args, wmain_args, nconv, dm >>

\* if (GetEnvironmentVariableA( "WINEOPTIONS", buffer, sizeof(buffer) ) && buffer[0])
\*     inherit_options( buffer ), up to its call of parse_options
Start ==
    /\ pc = "start"
    /\ i' = 0
    /\ IF env # NULL /\ env # <<>>
       THEN pc' = "replay" /\ rargv' = ReplayArgv(env)
       ELSE pc' = "live" /\ rargv' = rargv
    /\ UNCHANGED << argv_in, env_in, parent, gen, env, argv, inherit_str, calls, st,
                    app_argc, app_argv, app_wargv, main_args, wmain_args, nconv, dm >>

\* the for loop of parse_options ends at a[idx]: the NULL, or the "--" option
LoopEnds(a, base, idx) ==
    \/ a[base + idx + 1] = NULL
    \/ ScanToken(a[base + idx + 1]).kind = "break"

\* what an iteration r of parse_options leaves in its index and the statics;
\* the process is over when the handler has called ExitProcess
Iterated(r) ==
    /\ i' = r.i
    /\ st' = r.st
    /\ inherit_str' = r.inherit_str
    /\ calls' = r.calls
    /\ pc' = IF r.st.exited THEN "exited" ELSE pc

\* one iteration of parse_options( argv ) in inherit_options
ReplayStep ==
    /\ pc = "replay"
    /\ ~LoopEnds(rargv, 0, i)
    /\ rargv' = ParseIteration(rargv, 0, i, st, inherit_str, calls).argv
    /\ Iterated(ParseIteration(rargv, 0, i, st, inherit_str, calls))
    /\ UNCHANGED << argv_in, env_in, parent, gen, env, argv,
                    app_argc, app_argv, app_wargv, main_args, wmain_args, nconv, dm >>

\* parse_options returns to inherit_options: if (argv[0]) "an option remains"
ReplayEnd ==
    /\ pc = "replay"
    /\ LoopEnds(rargv, 0, i)
    /\ IF rargv[1] # NULL
       THEN /\ st' = OPTIONS_Usage(MESSAGE(st, "Unknown option '%s' in WINEOPTIONS variable", rargv[1]))
            /\ pc' = "exited"
            /\ i' = i
       ELSE /\ st' = st
            /\ pc' = "live"
            /\ i' = 0
    /\ UNCHANGED << argv_in, env_in, parent, gen, env, argv, rargv, inherit_str, calls,
                    app_argc, app_argv, app_wargv, main_args, wmain_args, nconv, dm >>

\* one iteration of parse_options( argv + 1 )
LiveStep ==
    /\ pc = "live"
    /\ ~LoopEnds(argv, 1, i)
    /\ argv' = ParseIteration(argv, 1, i, st, inherit_str, calls).argv
    /\ Iterated(ParseIteration(argv, 1, i, st, inherit_str, calls))
    /\ UNCHANGED << argv_in, env_in, parent, gen, env, rargv,
                    app_argc, app_argv, app_wargv, main_args, wmain_args, nconv, dm >>

\* the end of OPTIONS_ParseOptions, rc being what its check for a remaining
\* option found
Remaining(rc) ==
    IF rc.unknown # NULL
    THEN /\ st' = OPTIONS_Usage(MESSAGE(st, "Unknown option '%s'", rc.unknown))
         /\ pc' = "exited"
         /\ UNCHANGED << argv, app_argc, app_argv >>
    ELSE /\ st' = st
         /\ pc' = "done"
         /\ argv' = rc.argv
         /\ app_argv' = rc.argv
         /\ app_argc' = CountArgs(rc.argv, 0)

\* parse_options( argv + 1 ) returns: SetEnvironmentVariableA, the check
\* that no option remains, the count of the resulting arguments
LiveEnd ==
    /\ pc = "live"
    /\ LoopEnds(argv, 1, i)
    /\ env' = inherit_str
    /\ Remaining(RemainCheck(argv, 1))
    /\ UNCHANGED << argv_in, env_in, parent, gen, rargv, i, inherit_str, calls,
                    app_wargv, main_args, wmain_args, nconv, dm >>

\* ------------------------------------------------------------ accessors

__wine_get_main_args ==
    /\ pc = "done"
    /\ main_args' = [called |-> TRUE, argc |-> app_argc, argv |-> app_argv]
    /\ UNCHANGED << argv_in, env_in, parent, gen, pc, env, argv, rargv, i, inherit_str,
                    calls, st, app_argc, app_argv, app_wargv, wmain_args, nconv, dm >>

\* MultiByteToWideChar( CP_ACP, 0, s, -1, p, total ): one WCHAR per char
MultiByteToWideChar(s) == [k \in 1..Len(s) |-> "L" \o s[k]]

\* __wine_get_wmain_args without the test "if (!app_wargv)": built at every call
wmain_args_rebuilt ==
    /\ pc = "done"
    /\ app_wargv' = [k \in 1..(app_argc + 1) |->
                        IF k <= app_argc THEN MultiByteToWideChar(app_argv[k]) ELSE NULL]
    /\ nconv' = nconv + app_argc
    /\ wmain_args' = [called |-> TRUE, argc |-> app_argc, argv |-> app_wargv']
    /\ UNCHANGED << argv_in, env_in, parent, gen, pc, env, argv, rargv, i, inherit_str,
                    calls, st, app_argc, app_argv, main_args, dm >>

__wine_get_wmain_args ==
    /\ pc = "done"
    /\ IF app_wargv = NULL
       THEN /\ app_wargv' = [k \in 1..(app_argc + 1) |->
                                IF k <= app_argc THEN MultiByteToWideChar(app_argv[k])
                                ELSE NULL]
            /\ nconv' = nconv + app_argc
       ELSE UNCHANGED << app_wargv, nconv >>
    /\ wmain_args' = [called |-> TRUE, argc |-> app_argc, argv |-> app_wargv']
    /\ UNCHANGED << argv_in, env_in, parent, gen, pc, env, argv, rargv, i, inherit_str,
                    calls, st, app_argc, app_argv, main_args, dm >>

\* ------------------------------------------------------------ child process

\* A process started by this one inherits the environment, WINEOPTIONS as
\* SetEnvironmentVariableA left it, and starts with the initial statics.
Child ==
    /\ pc = "done"
    /\ gen < MaxGen
    /\ gen' = gen + 1
    /\ parent' = [argv_in |-> argv_in, env_in |-> env_in, calls |-> calls, app_argc |-> app_argc]
    /\ argv_in' = << argv0, NULL >> /\ argv' = << argv0, NULL >>
    /\ env_in' = env /\ env' = env
    /\ pc' = "start"
    /\ rargv' = << NULL >>
    /\ i' = 0
    /\ inherit_str' = NULL
    /\ calls' = <<>>
    /\ st' = FreshSt
    /\ app_argc' = 0 /\ app_argv' = NULL /\ app_wargv' = NULL
    /\ main_args' = NotCalled /\ wmain_args' = NotCalled /\ nconv' = 0
    /\ dm' = dm

Next ==
    \/ Start
    \/ ReplayStep
    \/ ReplayEnd
    \/ LiveStep
    \/ LiveEnd
    \/ __wine_get_main_args
    \/ __wine_get_wmain_args
    \/ Child

Spec == Init /\ [][Next]_vars

\* ------------------------------------------------------------ a WINEOPTIONS beyond the capacity

\* the text s, n times over
Repeated(s, n) == [k \in 1..(n * Len(s)) |-> s[((k - 1) % Len(s)) + 1]]

\* A WINEOPTIONS of ReplayCap + 1 tokens that fits the 1024 bytes of buffer:
\* '-dll a' as often as makes ReplayCap - 1 tokens, then '--managed foo'
env_over_cap ==
    Repeated(<<"-","d","l","l"," ","a"," ">>, (ReplayCap - 1) \div 2)
        \o tok_managed \o <<" ">> \o tok_foo

\* a process that finds that WINEOPTIONS
InitOverCap ==
    /\ ProcessStart(<< argv0, tok_foo, NULL >>, env_over_cap)
    /\ parent = NoParent
    /\ gen = 0
    /\ dm = DmIdle

SpecOverCap == InitOverCap /\ [][Next]_vars

\* ------------------------------------------------------------ do_debugmsg on its own

\* directives: class toggles, module lists, and malformed ones
dir_all       == <<"+","a","l","l">>
dir_minus_all == <<"-","a","l","l">>
dir_warn_heap == <<"w","a","r","n","-","h","e","a","p">>
dir_fixme_x   == <<"f","i","x","m","e","+","x">>
dir_trace_all == <<"t","r","a","c","e","+","a","l","l">>
dir_err_x     == <<"e","r","r","-","x">>
dir_foo       == <<"f","o","o">>
dir_plus      == <<"+">>
dir_warn_plus == <<"w","a","r","n","+">>
dir_empty     == <<>>
dir_bar_x     == <<"b","a","r","+","x">>
dir_warn_a_b  == <<"w","a","r","n","-","a","+","b">>
dir_foo_bar   == <<"-","f","o","o","+","b","a","r">>
dir_a_b       == <<"+","a","-","b">>
dir_relay     == <<"+","r","e","l","a","y","=","u","s","e","r","3","2",":","K","E","R","N","E","L","3","2">>
dir_xrelay    == <<"-","r","e","l","a","y","=","a",":",":","b">>
dir_snoop     == <<"+","s","n","o","o","p","=">>
dir_xsnoop    == <<"-","s","n","o","o","p","=","c">>
dir_RELAY     == <<"+","R","E","L","A","Y","=","d">>
dir_relayx    == <<"+","r","e","l","a","y","x">>

Directives ==
    { dir_all, dir_minus_all, dir_warn_heap, dir_fixme_x, dir_trace_all,
      dir_err_x, dir_foo, dir_plus, dir_warn_plus, dir_empty,
      dir_bar_x, dir_warn_a_b, dir_foo_bar, dir_a_b, dir_relay,
      dir_xrelay, dir_snoop, dir_xsnoop, dir_RELAY, dir_relayx }

\* the directives ds with a comma between two of them
RECURSIVE JoinDirectives(_)
JoinDirectives(ds) ==
    IF Len(ds) = 0 THEN <<>>
    ELSE IF Len(ds) = 1 THEN ds[1]
    ELSE ds[1] \o <<",">> \o JoinDirectives(Tail(ds))

\* the --debugmsg arguments: at most MaxDirectives directives
DebugArgs ==
    { JoinDirectives(ds) : ds \in UNION { [1..n -> Directives] : n \in 0..MaxDirectives } }

\* lists a --debugmsg option handled earlier has left behind
OldDebug ==
    [calls |-> <<>>,
     debug_relay_includelist |-> << <<"O","L","D">>, NULL >>,
     debug_relay_excludelist |-> << <<"O","L","D">>, NULL >>,
     debug_snoop_includelist |-> << <<"O","L","D">>, NULL >>,
     debug_snoop_excludelist |-> << <<"O","L","D">>, NULL >>]

\* a process inside its call do_debugmsg( arg ), with the diagnostic state d
InsideDebugmsg(a, d) ==
    /\ dm = [pc |-> "start", arg |-> a, d0 |-> d, opt |-> NULL, rest |-> a, prev |-> NULL]
    /\ st = [FreshSt EXCEPT !.debug = d]
    /\ pc = "live"
    /\ argv_in = << argv0, tok_debugmsg, a, NULL >> /\ argv = argv_in
    /\ env_in = NULL /\ env = NULL
    /\ rargv = << NULL >>
    /\ i = 0
    /\ inherit_str = NULL
    /\ calls = <<>>
    /\ app_argc = 0 /\ app_argv = NULL /\ app_wargv = NULL
    /\ main_args = NotCalled /\ wmain_args = NotCalled /\ nconv = 0

InitDebugmsg ==
    /\ \E a \in DebugArgs, d \in {NoDebug, OldDebug} : InsideDebugmsg(a, d)
    /\ parent = NoParent
    /\ gen = 0

\* the error label: the syntax message and ExitProcess(1)
DmError ==
    /\ st' = ExitProcess(MESSAGE(st, "wine: Syntax: --debugmsg", <<>>), 1)
    /\ dm' = [dm EXCEPT !.pc = "exited"]

\* opt has become t.tok: the loop goes on, or do_debugmsg returns
DmToken(t, prev) ==
    dm' = [dm EXCEPT !.pc = IF t.tok = NULL THEN "returned" ELSE "loop",
                     !.opt = t.tok, !.rest = t.rest, !.prev = prev]

\* if (!(opt = strtok( options, "," ))) goto error;
DmStart ==
    /\ dm.pc = "start"
    /\ IF strtok(dm.arg, {","}).tok = NULL
       THEN DmError
       ELSE DmToken(strtok(dm.arg, {","}), NULL) /\ st' = st
    /\ UNCHANGED << argv_in, env_in, parent, gen, pc, env, argv, rargv, i, inherit_str, calls,
                    app_argc, app_argv, app_wargv, main_args, wmain_args, nconv >>

DmDone(r) ==
    IF ~r.ok THEN DmError
    ELSE /\ st' = [st EXCEPT !.debug = r.d]
         /\ DmToken(strtok(dm.rest, {","}), dm.opt)

\* one pass through the body of the do-while loop
DmDirective ==
    /\ dm.pc = "loop"
    /\ DmDone(DebugDirective(st.debug, dm.opt))
    /\ UNCHANGED << argv_in, env_in, parent, gen, pc, env, argv, rargv, i, inherit_str, calls,
                    app_argc, app_argv, app_wargv, main_args, wmain_args, nconv >>

NextDebugmsg == DmStart \/ DmDirective

SpecDebugmsg == InitDebugmsg /\ [][NextDebugmsg]_vars

\* ------------------------------------------------------------ the --debugmsg grammar, as specified

\* the stepwise run agrees with do_debugmsg as the handlers call it
DmAgrees ==
    dm.pc \in {"returned", "exited"} =>
        do_debugmsg(dm.d0, dm.arg) = [ok |-> dm.pc = "returned", d |-> st.debug]

\* the position of the first '+' or '-' of a directive, whichever it is
FirstSign(dir) == FirstIn(dir, {"+", "-"})

ClassOf(dir) == SubSeq(dir, 1, FirstSign(dir) - 1)

RestOf(dir) == From(dir, FirstSign(dir) + 1)

ClassBits ==
    { << <<"f","i","x","m","e">>, 1 >>, << <<"e","r","r">>, 2 >>,
      << <<"w","a","r","n">>, 4 >>, << <<"t","r","a","c","e">>, 8 >> }

KnownClass(name) == \E cb \in ClassBits : cb[1] = name

BitOf(name) == (CHOOSE cb \in ClassBits : cb[1] = name)[2]

\* the bits a directive names: one class, or all of them
BitsOf(dir) == IF ClassOf(dir) = <<>> THEN 255 ELSE BitOf(ClassOf(dir))

\* a directive of the form [class](+|-)rest, rest not empty, class known
WellFormed(dir) ==
    /\ FirstSign(dir) # 0
    /\ RestOf(dir) # <<>>
    /\ ClassOf(dir) = <<>> \/ KnownClass(ClassOf(dir))

\* a class-less directive whose rest starts with key, in any case
StartsWithKey(dir, key) ==
    /\ FirstSign(dir) = 1
    /\ Len(dir) >= 1 + Len(key)
    /\ [k \in 1..Len(key) |-> tolower(dir[k + 1])] = key

ModuleListDirective(dir) ==
    \/ StartsWithKey(dir, <<"r","e","l","a","y","=">>)
    \/ StartsWithKey(dir, <<"s","n","o","o","p","=">>)

\* the call a non-module directive is specified to make
ExpectedCall(dir) ==
    [name  |-> IF RestOf(dir) = <<"a","l","l">> THEN <<>> ELSE RestOf(dir),
     set   |-> IF dir[FirstSign(dir)] = "+" THEN BitsOf(dir) ELSE 0,
     clear |-> IF dir[FirstSign(dir)] = "-" THEN BitsOf(dir) ELSE 0]

\* the non-empty comma-separated pieces of an argument, left to right
RECURSIVE Pieces(_)
Pieces(arg) ==
    IF arg = <<>> THEN <<>>
    ELSE IF arg[1] = "," THEN Pieces(Tail(arg))
    ELSE IF \E k \in 1..Len(arg) : arg[k] = ","
         THEN LET c == CHOOSE k \in 1..Len(arg) : arg[k] = "," /\ \A j \in 1..(k-1) : arg[j] # ","
              IN  << SubSeq(arg, 1, c - 1) >> \o Pieces(From(arg, c + 1))
         ELSE << arg >>

LastCall == st.debug.calls[Len(st.debug.calls)]

\* C7: in an argument do_debugmsg accepts, every directive that is not a
\* module list makes one call to wine_dbg_add_option, the calls follow the
\* directives left to right, and each carries (name, set, clear) with the
\* bit of the named class or all bits, set for '+' and clear for '-', and
\* the text after the sign as name, "all" replaced by "".  The call of the
\* directive just handled is the last one made; an accepted argument without
\* module lists has made exactly the calls of its directives, in order.
C7_OneCallPerDirective ==
    /\ (dm.prev # NULL /\ ~ModuleListDirective(dm.prev)) =>
           /\ st.debug.calls # <<>>
           /\ LastCall = ExpectedCall(dm.prev)
    /\ (dm.pc = "returned" /\ \A k \in 1..Len(Pieces(dm.arg)) : ~ModuleListDirective(Pieces(dm.arg)[k])) =>
           st.debug.calls = [k \in 1..Len(Pieces(dm.arg)) |-> ExpectedCall(Pieces(dm.arg)[k])]

\* '+all,warn-heap' has been accepted: (all, none, "") then (none, warn, "heap")
C7_Witness ==
    /\ dm.pc = "returned"
    /\ dm.arg = dir_all \o <<",">> \o dir_warn_heap
    /\ st.debug.calls = << [name |-> <<>>, set |-> 255, clear |-> 0],
                          [name |-> <<"h","e","a","p">>, set |-> 0, clear |-> 4] >>

\* C8: the sign of a directive is the first '+' or '-' in it, whichever
\* comes first: a directive that is well formed with that sign is not
\* rejected, and if it is no module list its call is the one that sign gives
\* ('warn-a+b' clears warn for 'a+b', '-foo+bar' clears all for 'foo+bar').
C8_FirstSignDecides ==
    /\ (dm.pc = "exited" /\ dm.opt # NULL) => ~WellFormed(dm.opt)
    /\ (dm.prev # NULL /\ ~ModuleListDirective(dm.prev)) => LastCall = ExpectedCall(dm.prev)

\* C9: do_debugmsg ends the process with code 1 exactly when the argument
\* has no directive or has a directive that is not well formed (no sign,
\* nothing after the sign, an unknown class name); otherwise it returns.
C9_RejectedIffMalformed ==
    dm.pc \in {"returned", "exited"} =>
        ((dm.pc = "exited" /\ st.exited /\ st.exit = 1)
            <=> (\/ Pieces(dm.arg) = <<>>
                 \/ \E k \in 1..Len(Pieces(dm.arg)) : ~WellFormed(Pieces(dm.arg)[k])))

\* the ':'-separated components of a text, in order
RECURSIVE Components(_)
Components(s) ==
    IF \E k \in 1..Len(s) : s[k] = ":"
    THEN LET c == CHOOSE k \in 1..Len(s) : s[k] = ":" /\ \A j \in 1..(k-1) : s[j] # ":"
         IN  << SubSeq(s, 1, c - 1) >> \o Components(From(s, c + 1))
    ELSE << s >>

UpperCased(s) == [k \in 1..Len(s) |-> toupper(s[k])]

\* a class-less directive whose rest starts with the literal key
StartsWithLiteral(dir, key) ==
    /\ FirstSign(dir) = 1
    /\ Len(dir) >= 1 + Len(key)
    /\ SubSeq(dir, 2, 1 + Len(key)) = key

\* the list a 'relay='/'snoop=' directive is about
TargetList(dir) ==
    IF dir[1] = "+"
    THEN (IF StartsWithLiteral(dir, <<"r","e","l","a","y","=">>)
          THEN "debug_relay_includelist" ELSE "debug_snoop_includelist")
    ELSE (IF StartsWithLiteral(dir, <<"r","e","l","a","y","=">>)
          THEN "debug_relay_excludelist" ELSE "debug_snoop_excludelist")

\* C10: once a class-less directive whose rest starts with 'relay=' or
\* 'snoop=' is handled, the list it targets holds exactly the ':'-separated
\* components of the text after the '=', upper-cased, in order, then the end
\* marker; nothing of the list installed before remains.
C10_ModuleListReplaced ==
    (/\ dm.prev # NULL
     /\ \/ StartsWithLiteral(dm.prev, <<"r","e","l","a","y","=">>)
        \/ StartsWithLiteral(dm.prev, <<"s","n","o","o","p","=">>))
    => st.debug[TargetList(dm.prev)] =
           [k \in 1..Len(Components(From(dm.prev, 8))) |->
                UpperCased(Components(From(dm.prev, 8))[k])] \o << NULL >>

\* '+relay=user32:KERNEL32' handled where an older relay allow-list was installed
C10_Witness ==
    /\ dm.prev = dir_relay
    /\ dm.d0 = OldDebug
    /\ st.debug.debug_relay_includelist =
           << <<"U","S","E","R","3","2">>, <<"K","E","R","N","E","L","3","2">>, NULL >>

\* ------------------------------------------------------------ the scanner, as specified

\* the entries of an array before its first NULL
Before(a) == SubSeq(a, 1, CountArgs(a, 0))

\* a token without its leading '-', and without one more '-' if doubled
Stripped(tok) == IF Len(tok) >= 2 /\ tok[2] = "-" THEN From(tok, 3) ELSE From(tok, 2)

\* the part of a text before its first '=' (all of it when there is none)
BeforeEqual(s) == IF strchr(s, "=") = 0 THEN s ELSE SubSeq(s, 1, strchr(s, "=") - 1)

\* the ways a token matches descriptor k
MatchesDescr(tok, k) ==
    /\ tok # <<>> /\ tok[1] = "-"
    /\ \/ tok = << "-", option_table[k].shortname >>
       \/ Stripped(tok) = option_table[k].longname
       \/ /\ option_table[k].has_arg
          /\ strchr(Stripped(tok), "=") # 0
          /\ BeforeEqual(Stripped(tok)) = option_table[k].longname

\* the descriptor a token matches, 0 when it matches none
MatchOf(tok) ==
    IF \E k \in 1..Len(option_table) : MatchesDescr(tok, k)
    THEN CHOOSE k \in 1..Len(option_table) : MatchesDescr(tok, k)
    ELSE 0

\* a matching token of the name=value form
InlineForm(tok) == strchr(tok, "=") # 0

\* the value comes from the token after tok: tok has no inline value, its
\* descriptor takes a value, and next is a token
FromNext(tok, next) ==
    ~InlineForm(tok) /\ option_table[MatchOf(tok)].has_arg /\ next # NULL

ValueOf(tok, next) ==
    IF InlineForm(tok) THEN From(tok, strchr(tok, "=") + 1)
    ELSE IF FromNext(tok, next) THEN next
    ELSE <<>>

WidthOf(tok, next) == IF FromNext(tok, next) THEN 2 ELSE 1

\* the tokens a scan leaves, by a keep or drop decision per token; stop is
\* what a "--" leaves: itself and the rest for the scan alone, the rest
\* without it once OPTIONS_ParseOptions has stripped it
RECURSIVE Kept(_, _)
Kept(toks, strip) ==
    IF toks = <<>> THEN <<>>
    ELSE IF toks[1] = <<"-","-">> THEN (IF strip THEN Tail(toks) ELSE toks)
    ELSE IF MatchOf(toks[1]) = 0 THEN << toks[1] >> \o Kept(Tail(toks), strip)
    ELSE IF Len(toks) >= 2 /\ FromNext(toks[1], toks[2]) THEN Kept(Tail(Tail(toks)), strip)
    ELSE Kept(Tail(toks), strip)

\* the array being scanned, the entry the scan is at, and the one after it
Scanning == pc \in {"replay", "live"}

ScanArr == IF pc = "replay" THEN rargv ELSE argv

ScanAt == IF pc = "replay" THEN i + 1 ELSE i + 2

ScanTok == ScanArr[ScanAt]

\* the scan is at a token it examines: not the NULL, not the "--"
AtToken == Scanning /\ ScanTok # NULL /\ ScanTok # <<"-","-">>

\* C1: when a '-'-prefixed token is left in argv before any "--" after the
\* live pass, the process ends with exit code 1, after the message
\* "Unknown option" that names the token.
C1_UnknownOptionExitsWithOne ==
    \A k \in 1..Len(st.msgs) :
        st.msgs[k].id = "Unknown option '%s'" =>
            /\ pc = "exited" /\ st.exited
            /\ st.msgs[k].arg # <<>> /\ st.msgs[k].arg[1] = "-"
            /\ st.exit = 1

\* the calls a process made through the handlers of inheritable options
RECURSIVE InheritableCalls(_)
InheritableCalls(cl) ==
    IF cl = <<>> THEN <<>>
    ELSE (IF \E k \in 1..Len(option_table) :
                option_table[k].func = cl[1].func /\ option_table[k].inherit
          THEN << cl[1] >> ELSE <<>>) \o InheritableCalls(Tail(cl))

\* the process is the child of one that found no WINEOPTIONS, whose command
\* line held inheritable options only, and is past its replay
ReplayedOnce ==
    /\ gen >= 1
    /\ parent.env_in = NULL
    /\ parent.app_argc = 1
    /\ InheritableCalls(parent.calls) = parent.calls
    /\ pc \in {"live", "done", "exited"}

\* C2: the string exported after a live pass over inheritable options,
\* replayed by inherit_options in a fresh process, makes the same handler
\* calls with the same values in the same order, and leaves no token.
C2_RoundTrip ==
    ReplayedOnce => (pc # "exited" /\ calls = parent.calls /\ rargv[1] = NULL)

\* C3: after OPTIONS_ParseOptions has returned, app_argv is argv[0] and then
\* the input tokens that were not consumed as an option, as its value or as
\* the "--" separator, in their order, and then the NULL; the count that
\* __wine_get_main_args returns is the number of entries before the NULL.
C3_FinalArgv ==
    pc = "done" =>
        /\ Before(app_argv) = << argv_in[1] >> \o Kept(Tail(Before(argv_in)), TRUE)
        /\ app_argc = 1 + Len(Kept(Tail(Before(argv_in)), TRUE))
        /\ app_argv[app_argc + 1] = NULL
        /\ main_args.called => (main_args.argc = app_argc /\ main_args.argv = app_argv)

\* '--dll foo app' and '-- -x' have been parsed and the accessor called
C3_Witness ==
    /\ pc = "done" /\ gen = 0
    /\ argv_in = << argv0, tok_dll, tok_foo, tok_foo, NULL >>
    /\ Before(app_argv) = << argv0, tok_foo >>
    /\ main_args.called /\ main_args.argc = 2

\* C4: an iteration at a token that matches a descriptor calls its handler
\* once, with the inline value of a name=value token, else with the next
\* token if the descriptor takes a value and there is one, else with "";
\* when the handler returns, 2 tokens are removed if the value was the next
\* token and 1 otherwise.
C4_ValueAndWidth ==
    [][ (AtToken /\ MatchOf(ScanTok) # 0) =>
            /\ calls' = Append(calls, [func |-> option_table[MatchOf(ScanTok)].func,
                                      arg  |-> ValueOf(ScanTok, ScanArr[ScanAt + 1])])
            /\ pc' = pc =>
                   Len(Before(IF pc = "replay" THEN rargv' ELSE argv'))
                       = Len(Before(ScanArr)) - WidthOf(ScanTok, ScanArr[ScanAt + 1])
      ]_vars

\* '--dll foo' (next token), '--winver=a=b' (inline) and '--dll' at the end
\* (no value) have each been handled
C4_Witness ==
    /\ pc = "done" /\ gen = 0
    /\ argv_in = << argv0, tok_dll, tok_foo, tok_winver_eq, NULL >>
    /\ calls = << [func |-> "MODULE_AddLoadOrderOption", arg |-> tok_foo],
                  [func |-> "VERSION_ParseWinVersion", arg |-> <<"a","=","b">>] >>
    /\ app_argc = 1

\* C5: an iteration calls the handler of descriptor k exactly when the token
\* is '-' and k's short name, or its remainder is k's long name, or k takes
\* a value and the remainder up to its first '=' is k's long name; a token
\* that matches no descriptor is left in place and the scan moves on.
C5_MatchRule ==
    [][ AtToken =>
            IF MatchOf(ScanTok) = 0
            THEN /\ calls' = calls /\ st' = st /\ pc' = pc
                 /\ argv' = argv /\ rargv' = rargv
                 /\ i' = i + 1
            ELSE /\ Len(calls') = Len(calls) + 1
                 /\ calls'[Len(calls')].func = option_table[MatchOf(ScanTok)].func
      ]_vars

\* '--help=x' matched nothing and stayed in place; then '-v' matched do_version
C5_Witness ==
    /\ pc = "exited" /\ gen = 0
    /\ argv_in = << argv0, tok_help_eq, tok_v, NULL >>
    /\ argv = argv_in
    /\ calls = << [func |-> "do_version", arg |-> <<>>] >>

\* C6: when the scan of argv is at a "--", no handler is called from then
\* on, every later token is in the final argv unchanged and in order, and
\* that "--" alone is removed.
C6_SeparatorEndsScan ==
    [][ /\ (pc = "live" /\ ScanTok = <<"-","-">>) =>
            /\ calls' = calls
            /\ pc' = "done" =>
                   /\ Before(app_argv') = SubSeq(Before(argv), 1, ScanAt - 1)
                                              \o SubSeq(Before(argv), ScanAt + 1, Len(Before(argv)))
                   /\ SubSeq(Before(argv), ScanAt + 1, Len(Before(argv)))
                          = SubSeq(Before(argv_in), Len(Before(argv_in)) - (Len(Before(argv)) - ScanAt) + 1,
                                   Len(Before(argv_in)))
        /\ (pc = "done" /\ gen' = gen) => calls' = calls
      ]_vars

\* '-- --help' has been parsed: --help is an application argument
C6_Witness ==
    /\ pc = "done" /\ gen = 0
    /\ argv_in = << argv0, tok_managed, tok_sep, tok_help, NULL >>
    /\ Before(app_argv) = << argv0, tok_help >>
    /\ calls = << [func |-> "do_managed", arg |-> <<>>] >>

\* ------------------------------------------------------------ module lists, as specified

ModuleLists ==
    { "debug_relay_includelist", "debug_relay_excludelist",
      "debug_snoop_includelist", "debug_snoop_excludelist" }

\* the list that the keyword, in any spelling, and the sign of a module-list
\* directive name
NamedList(dir) ==
    IF dir[1] = "+"
    THEN (IF StartsWithKey(dir, <<"r","e","l","a","y","=">>)
          THEN "debug_relay_includelist" ELSE "debug_snoop_includelist")
    ELSE (IF StartsWithKey(dir, <<"r","e","l","a","y","=">>)
          THEN "debug_relay_excludelist" ELSE "debug_snoop_excludelist")

\* this step is a pass of the loop of do_debugmsg that handles the
\* module-list directive dm.opt and does not reject it
ModuleStep == dm.pc = "loop" /\ dm'.pc # "exited" /\ ModuleListDirective(dm.opt)

\* C11: a module-list directive, its keyword spelled in any case, replaces
\* the list of the subsystem the keyword names and of the polarity of its
\* sign (relay or snoop, '+' the allow-list, '-' the deny-list), and leaves
\* the other three lists as they were.
C11_KeywordNamesList ==
    [][ModuleStep =>
          /\ st'.debug[NamedList(dm.opt)] =
                 [k \in 1..Len(Components(From(dm.opt, 8))) |->
                      UpperCased(Components(From(dm.opt, 8))[k])] \o << NULL >>
          /\ \A l \in ModuleLists \ {NamedList(dm.opt)} : st'.debug[l] = st.debug[l]
      ]_vars

\* C12: a module-list directive makes no call to wine_dbg_add_option, so it
\* changes no class bit of any selector, whatever its sign.
C12_ModuleListMakesNoCall ==
    [][ModuleStep => st'.debug.calls = st.debug.calls]_vars

\* C12, amended: a module-list directive makes exactly one call to
\* wine_dbg_add_option, after replacing its list: the call sets all classes
\* and clears none, whatever the sign, for the selector that is the keyword
\* as the directive spells it.
C12_ModuleListEnablesKeyword ==
    [][ModuleStep =>
          st'.debug.calls =
              Append(st.debug.calls, [name |-> SubSeq(dm.opt, 2, 6), set |-> AllBits, clear |-> 0])
      ]_vars

\* '-relay=a::b' handled: the last call enables all classes of "relay"
C12_Witness ==
    /\ dm.prev = dir_xrelay
    /\ st.debug.calls # <<>>
    /\ LastCall = [name |-> <<"r","e","l","a","y">>, set |-> 255, clear |-> 0]
    /\ st.debug.debug_relay_excludelist = << <<"A">>, <<>>, <<"B">>, NULL >>

\* ------------------------------------------------------------ the exported string, as specified

\* the tokens of a token sequence that a scan consumes for inheritable
\* options: the trigger and, in the separate-token form, its value; a "--"
\* ends the scan
RECURSIVE Consumed(_)
Consumed(toks) ==
    IF toks = <<>> \/ toks[1] = <<"-","-">> THEN <<>>
    ELSE IF MatchOf(toks[1]) = 0 THEN Consumed(Tail(toks))
    ELSE IF Len(toks) >= 2 /\ FromNext(toks[1], toks[2])
         THEN (IF option_table[MatchOf(toks[1])].inherit THEN << toks[1], toks[2] >> ELSE <<>>)
                  \o Consumed(Tail(Tail(toks)))
         ELSE (IF option_table[MatchOf(toks[1])].inherit THEN << toks[1] >> ELSE <<>>)
                  \o Consumed(Tail(toks))

\* tokens joined by single spaces; no string at all when there is no token
RECURSIVE SpaceJoined(_)
SpaceJoined(toks) ==
    IF toks = <<>> THEN NULL
    ELSE IF Len(toks) = 1 THEN toks[1]
    ELSE toks[1] \o <<" ">> \o SpaceJoined(Tail(toks))

\* the tokens this run of OPTIONS_ParseOptions scans: those of the
\* WINEOPTIONS it found, then those of argv after argv[0]
ReplayedTokens == IF env_in = NULL \/ env_in = <<>> THEN <<>> ELSE Before(ReplayArgv(env_in))

LiveTokens == Tail(Before(argv_in))

\* the live pass is over: parse_options( argv + 1 ) is at the NULL or the "--"
LivePassEnds == pc = "live" /\ ScanTok \in {NULL, <<"-","-">>}

\* C13: WINEOPTIONS is written once, when the live pass is over: it becomes
\* the consumed tokens of every inheritable option matched in the run (the
\* trigger, and its value when that is a token of its own), single spaces
\* between them, in the order of consumption, with no token of --help,
\* --managed or --version; it is cleared when no inheritable option was
\* matched.  Before and after that step WINEOPTIONS does not change.
C13_ExportedOnce ==
    [][ /\ LivePassEnds =>
               env' = SpaceJoined(Consumed(ReplayedTokens) \o Consumed(LiveTokens))
        /\ (~LivePassEnds /\ gen' = gen) => env' = env
      ]_vars

\* ['--dll','foo','app.exe'] has exported exactly '--dll foo'
C13_Witness ==
    /\ pc = "done" /\ gen = 0 /\ env_in = NULL
    /\ argv_in = << argv0, tok_dll, tok_foo, tok_foo, NULL >>
    /\ env = <<"-","-","d","l","l"," ","f","o","o">>

\* C14: the replay of WINEOPTIONS leaves inherit_str absent, and the string
\* exported when the live pass is over holds only the tokens consumed from
\* the live argv.
C14_ReplayLeavesBufferAbsent ==
    [][ /\ pc = "replay" => inherit_str' = NULL
        /\ LivePassEnds => env' = SpaceJoined(Consumed(LiveTokens))
      ]_vars

\* what the replay of WINEOPTIONS consumes for inheritable options, joined
ReplayedString == SpaceJoined(Consumed(ReplayedTokens))

\* C14, amended: the replay fills inherit_str as the live pass does: when
\* inherit_options returns, inherit_str is the consumed tokens of the
\* replayed inheritable options, and the string exported at the end starts
\* with them, before the tokens consumed from the live argv.
C14_ReplayFillsBuffer ==
    [][ /\ (pc = "replay" /\ pc' = "live") => inherit_str' = ReplayedString
        /\ (LivePassEnds /\ ReplayedString # NULL) =>
               /\ Len(env') >= Len(ReplayedString)
               /\ SubSeq(env', 1, Len(ReplayedString)) = ReplayedString
               /\ Consumed(LiveTokens) = <<>> => env' = ReplayedString
      ]_vars

\* WINEOPTIONS '--dll foo' was replayed, the live argv gave '--winver=a=b':
\* the export holds both
C14_Witness ==
    /\ pc = "done" /\ gen = 0
    /\ env_in = env_dll_foo
    /\ argv_in = << argv0, tok_winver_eq, NULL >>
    /\ env = env_dll_foo \o <<" ">> \o tok_winver_eq

\* ------------------------------------------------------------ a missing value, as specified

\* the scan is at a value-taking option in the separate-token form that is
\* the last token: nothing follows it
ValueMissing ==
    /\ AtToken
    /\ MatchOf(ScanTok) # 0
    /\ option_table[MatchOf(ScanTok)].has_arg
    /\ ~InlineForm(ScanTok)
    /\ ScanArr[ScanAt + 1] = NULL

\* the handler of the option at the scan is called with "" and returns, and
\* that one token is removed
EmptyValueAccepted ==
    /\ calls' = Append(calls, [func |-> option_table[MatchOf(ScanTok)].func, arg |-> <<>>])
    /\ pc' = pc /\ ~st'.exited
    /\ Before(IF pc = "replay" THEN rargv' ELSE argv') = SubSeq(Before(ScanArr), 1, ScanAt - 1)

\* C15: for each of --debugmsg, --dll, --dosver and --winver as the last
\* token, with no token after it, the handler is called with the empty
\* string, one token is removed, and the process is not ended.
C15_MissingValueIsNoError ==
    [][ValueMissing => EmptyValueAccepted]_vars

\* C15, amended: the scanner calls the handler with the empty string in
\* each of these cases; for --dll, --dosver and --winver the handler returns,
\* one token is removed and the process goes on; for --debugmsg the handler
\* rejects the empty string: the syntax message and exit code 1.
C15_MissingValueReachesHandler ==
    [][ValueMissing =>
          IF option_table[MatchOf(ScanTok)].func = "do_debugmsg"
          THEN /\ calls' = Append(calls, [func |-> "do_debugmsg", arg |-> <<>>])
               /\ pc' = "exited" /\ st'.exited /\ st'.exit = 1
               /\ st'.msgs = Append(st.msgs, [id |-> "wine: Syntax: --debugmsg", arg |-> <<>>])
               /\ argv' = argv /\ rargv' = rargv
          ELSE EmptyValueAccepted
      ]_vars

\* 'foo --debugmsg' was scanned: the handler got "" and ended the process
\* with code 1
C15_Witness ==
    /\ pc = "exited" /\ st.exit = 1
    /\ argv_in = << argv0, tok_foo, tok_debugmsg, NULL >>
    /\ calls = << [func |-> "do_debugmsg", arg |-> <<>>] >>

\* ------------------------------------------------------------ leftovers of the replay, as specified

\* every whitespace-separated token of the WINEOPTIONS the process found,
\* however many
AllTokens(s, starts) == TokenLoop(s, starts, TokenIndex(starts), Cardinality(starts))

SourceTokens ==
    IF env_in = NULL \/ env_in = <<>> THEN <<>>
    ELSE AllTokens(env_in, TokenStarts(env_in, {" ", "\t"}))

\* a token that, when the scan examines it, takes the token after it as its
\* value
Taker(tok) == MatchOf(tok) # 0 /\ option_table[MatchOf(tok)].has_arg /\ ~InlineForm(tok)

\* the last index before n whose token is no taker (0: none)
LastOther(toks, n) ==
    IF \E k \in 1..(n - 1) : ~Taker(toks[k])
    THEN CHOOSE k \in 1..(n - 1) : ~Taker(toks[k]) /\ \A j \in (k + 1)..(n - 1) : Taker(toks[j])
    ELSE 0

\* token n is examined by a scan that no "--" has ended, not swallowed as a
\* value: the takers just before it pair up, each with the token after it
Examined(toks, n) == (n - 1 - LastOther(toks, n)) % 2 = 0

\* the index at which the scan ends: the first "--" examined (Len + 1: none)
ScanStop(toks) ==
    IF \E n \in 1..Len(toks) : toks[n] = <<"-","-">> /\ Examined(toks, n)
    THEN CHOOSE n \in 1..Len(toks) :
             /\ toks[n] = <<"-","-">> /\ Examined(toks, n)
             /\ \A m \in 1..(n - 1) : ~(toks[m] = <<"-","-">> /\ Examined(toks, m))
    ELSE Len(toks) + 1

\* the indexes of the tokens that no option consumes: the "--" that ends the
\* scan and all after it, and before it the examined tokens matching nothing
UnconsumedFrom(toks, stop) ==
    { n \in 1..Len(toks) : n >= stop \/ (Examined(toks, n) /\ MatchOf(toks[n]) = 0) }

Unconsumed(toks) == UnconsumedFrom(toks, ScanStop(toks))

FirstOf(S) == CHOOSE n \in S : \A m \in S : n <= m

\* the scan of the replayed tokens is over: at the NULL or at a "--"
ReplayScanEnds == pc = "replay" /\ ScanTok \in {NULL, <<"-","-">>}

\* C16: when the replay of WINEOPTIONS leaves a token of the string
\* unconsumed (a word, an unrecognized option, a "--" and what follows it),
\* the process ends with the message "Unknown option ... in WINEOPTIONS
\* variable" naming the first such token, then the usage text, and the live
\* argv has not been scanned; when every token is consumed the replay
\* returns and the live pass begins.
LeftoverFatal(toks, left) ==
    IF left # {}
    THEN /\ pc' = "exited" /\ st'.exited
         /\ st'.msgs = st.msgs \o << [id  |-> "Unknown option '%s' in WINEOPTIONS variable",
                                      arg |-> toks[FirstOf(left)]],
                                     [id |-> "Usage", arg |-> <<>>] >>
         /\ argv' = argv_in /\ calls' = calls
    ELSE /\ pc' = "live" /\ ~st'.exited
         /\ st'.msgs = st.msgs
         /\ argv' = argv_in /\ calls' = calls

C16_LeftoverIsFatal ==
    [][ReplayScanEnds => LeftoverFatal(SourceTokens, Unconsumed(SourceTokens))]_vars

\* ------------------------------------------------------------ the wide argv, as specified

\* this step is a call of __wine_get_wmain_args that changes something
WideStep ==
    /\ pc = "done" /\ gen' = gen
    /\ (wmain_args' # wmain_args \/ app_wargv' # app_wargv \/ nconv' # nconv)

\* C17: once OPTIONS_ParseOptions is done, the first call of
\* __wine_get_wmain_args builds the wide vector, one conversion per entry:
\* entry k is the conversion of entry k of the narrow argv for every k below
\* the count, the entry at the count is the end marker, and the count is
\* app_argc.  No later call converts anything or changes the vector or what
\* is returned: every call returns the same sequence and count.
C17_WideBuiltOnce ==
    [][WideStep =>
          /\ ~wmain_args.called /\ app_wargv = NULL
          /\ nconv' = nconv + app_argc
          /\ Len(app_wargv') = app_argc + 1
          /\ \A k \in 1..app_argc : app_wargv'[k] = MultiByteToWideChar(app_argv[k])
          /\ app_wargv'[app_argc + 1] = NULL
          /\ wmain_args' = [called |-> TRUE, argc |-> app_argc, argv |-> app_wargv']
      ]_vars

\* '--dll foo foo' was parsed and __wine_get_wmain_args called: L"wine",
\* L"foo", the end marker, two conversions in all
C17_Witness ==
    /\ pc = "done" /\ gen = 0
    /\ argv_in = << argv0, tok_dll, tok_foo, tok_foo, NULL >>
    /\ wmain_args.called /\ wmain_args.argc = 2
    /\ wmain_args.argv = << <<"Lw","Li","Ln","Le">>, <<"Lf","Lo","Lo">>, NULL >>
    /\ nconv = 2

\* ------------------------------------------------------------ the order of the handlers, as specified

\* the handler call a token stands for that matches entry m of the table:
\* its value is what follows its '=', or the token after it, or nothing
CallOf(tok, m, value) == [func |-> option_table[m].func, arg |-> value]

InlineValue(tok) == IF InlineForm(tok) THEN From(tok, strchr(tok, "=") + 1) ELSE <<>>

TakesNext(toks, m) == Len(toks) >= 2 /\ ~InlineForm(toks[1]) /\ option_table[m].has_arg

\* a handler call that ends the process (help, version, a --debugmsg
\* argument that do_debugmsg rejects)
Terminating(call) == CallFunc(call.func, FreshSt, call.arg).exited

\* the handler calls of a token sequence, left to right, up to and with the
\* first one that ends the process; a "--" ends the scan
RECURSIVE Fired(_)
FiredAfter(call, rest) == IF Terminating(call) THEN << call >> ELSE << call >> \o Fired(rest)

FiredAt(toks, m) ==
    IF m = 0 THEN Fired(Tail(toks))
    ELSE IF TakesNext(toks, m)
         THEN FiredAfter(CallOf(toks[1], m, toks[2]), Tail(Tail(toks)))
         ELSE FiredAfter(CallOf(toks[1], m, InlineValue(toks[1])), Tail(toks))

Fired(toks) ==
    IF toks = <<>> \/ toks[1] = <<"-","-">> THEN <<>>
    ELSE FiredAt(toks, MatchOf(toks[1]))

\* the replay of toks does not reach the live pass: a handler ended the
\* process, or a token was left over
ReplayIsFinal(toks, fired) ==
    \/ fired # <<>> /\ Terminating(fired[Len(fired)])
    \/ Kept(toks, FALSE) # <<>>

\* all the handler calls of the process, in the order specified: those of
\* the WINEOPTIONS tokens in string order, then those of argv in argv order
AllFired(rtoks, rfired) ==
    IF ReplayIsFinal(rtoks, rfired) THEN rfired ELSE rfired \o Fired(LiveTokens)

IsPrefix(s, t) == Len(s) <= Len(t) /\ SubSeq(t, 1, Len(s)) = s

\* the calls made so far against the calls specified, rfired being those of
\* the replayed tokens and all those of the whole process
OrderedAs(rfired, all) ==
    /\ IsPrefix(calls, all)
    /\ pc \in {"live", "done"} => Len(calls) >= Len(rfired)
    /\ pc \in {"done", "exited"} => calls = all
    /\ \A k \in 1..(Len(calls) - 1) : ~Terminating(calls[k])

InOrder(rfired) == OrderedAs(rfired, AllFired(ReplayedTokens, rfired))

\* C18: the handler calls made so far are the first ones of the calls of
\* the replayed tokens, in string order, followed by those of the live
\* argv, in argv order; all replayed ones are made when the live pass
\* begins; a call that ends the process is the last one made; a process
\* that is over has made all the calls up to there and no other.
C18_HandlerOrder == InOrder(Fired(ReplayedTokens))

\* WINEOPTIONS '--dll foo' and argv '--managed -v --dll': the replayed
\* handler, then --managed, then -v, which ended the process before --dll
C18_Witness ==
    /\ pc = "exited"
    /\ env_in = env_dll_foo
    /\ argv_in = << argv0, tok_managed, tok_v, tok_dll, NULL >>
    /\ calls = << [func |-> "MODULE_AddLoadOrderOption", arg |-> tok_foo],
                  [func |-> "do_managed", arg |-> <<>>],
                  [func |-> "do_version", arg |-> <<>>] >>

\* ------------------------------------------------------------ the replay capacity, as specified

\* C19: no token of WINEOPTIONS is dropped silently, however many there are:
\* the array inherit_options builds holds every token of the string, and
\* when the replay returns normally every token of the string has been
\* consumed by a recognized option.
C19_CapIsNotSilent ==
    [][ /\ (pc = "start" /\ pc' = "replay") =>
               /\ Len(rargv') = Len(SourceTokens) + 1
               /\ SubSeq(rargv', 1, Len(SourceTokens)) = SourceTokens
        /\ (pc = "replay" /\ pc' = "live") => Unconsumed(SourceTokens) = {}
      ]_vars

\* ------------------------------------------------------------ the loop of parse_options, as specified

HasSentinel(a) == \E k \in 1..Len(a) : a[k] = NULL

\* the position of the sentinel: the first NULL of the array
SentinelAt(a) == CHOOSE k \in 1..Len(a) : a[k] = NULL /\ \A j \in 1..(k - 1) : a[j] # NULL

\* b is a without the c entries at position at, its sentinel c entries lower
RemovedAt(a, b, at, c) ==
    /\ SentinelAt(a) - c >= at
    /\ SentinelAt(b) = SentinelAt(a) - c
    /\ \A k \in 1..(at - 1) : b[k] = a[k]
    /\ \A k \in at..(SentinelAt(a) - c) : b[k] = a[k + c]

\* one iteration whose handler, if any, returns: from the array a at entry
\* at and index n to the array b at entry at2 and index n2
Iteration(a, at, n, b, at2, n2) ==
    /\ n >= 0 /\ n2 >= 0
    /\ at < SentinelAt(a)
    /\ HasSentinel(b)
    /\ \/ n2 = n + 1 /\ b = a
       \/ n2 = n /\ \E c \in {1, 2} : RemovedAt(a, b, at, c)
    /\ at2 <= SentinelAt(b)
    /\ SentinelAt(b) - at2 < SentinelAt(a) - at

\* C20: an iteration of parse_options whose handler returns either moves
\* the index by one over a token it keeps, or removes one or two tokens
\* from before the sentinel and stays at the same index; the index is
\* never below 0; the entry examined is never past the sentinel; the
\* array keeps its sentinel; and the distance from the entry examined to
\* the sentinel gets smaller, so that the loop ends.
C20_LoopAdvancesOrRemoves ==
    [][(AtToken /\ pc' = pc) =>
          IF pc = "replay"
          THEN Iteration(rargv, i + 1, i, rargv', i' + 1, i')
          ELSE Iteration(argv, i + 2, i, argv', i' + 2, i')
      ]_vars

\* argv 'foo --dll foo': the two tokens at index 1 are removed, the scan
\* is again at index 1, now the sentinel
C20_Witness ==
    /\ pc = "live" /\ i = 1
    /\ argv_in = << argv0, tok_foo, tok_dll, tok_foo, NULL >>
    /\ SentinelAt(argv) = 3
    /\ Len(calls) = 1

====
